---- MODULE Spec2Model ----
(***************************************************************************)
(* Model of code_review_gitlab.py: the GitLab merge-request reviewer.      *)
(*                                                                         *)
(* Python str values are TLA+ strings; a character is a string of length   *)
(* one, read with SubSeq.  Python functions are operators that compute     *)
(* what the code computes; the actions apply them and record the effects   *)
(* (HTTP requests issued, documents built, ReviewOutcome objects created,  *)
(* report file written).                                                   *)
(***************************************************************************)
EXTENDS Integers, Sequences, FiniteSets, TLC

VARIABLES
    pc,           \* position of the running call
    entry,        \* function the run entered through
    file_filter,  \* Optional[List[str]] argument of load_merge_request_data
    mr_data,      \* <<>> before fetch_mr_changes returned, else <<its JSON>>
    idx,          \* 1-based position of the `for change in changes` loop
    docs,         \* the `docs` list being built / `documents`
    requests,     \* every requests.get issued so far, with its response
    llm_calls,    \* model replies (or failures) obtained by chain.invoke
    outcomes,     \* every ReviewOutcome constructed so far
    report_file,  \* <<>> or <<text written to mr_review_report.md>>
    text          \* argument of a direct parse_markdown_response call

vars == <<pc, entry, file_filter, mr_data, idx, docs, requests, llm_calls,
          outcomes, report_file, text>>

-----------------------------------------------------------------------------
(* Bounds of the model.                                                    *)

MaxChanges == 3

MaxChunks == 3

-----------------------------------------------------------------------------
(* Python str primitives.                                                  *)

CharAt(s, i) == SubSeq(s, i, i)

LowerAlpha == "abcdefghijklmnopqrstuvwxyz"

UpperAlpha == "ABCDEFGHIJKLMNOPQRSTUVWXYZ"

\* str.isspace() / regex \s on the characters a TLA+ string can hold
Whitespace == {" ", "\t", "\n", "\r", "\f"}

\* lower-case letter -> upper-case letter, and back
ToUpper ==
    [c \in {CharAt(LowerAlpha, i) : i \in 1..26} |->
        CharAt(UpperAlpha, CHOOSE i \in 1..26 : CharAt(LowerAlpha, i) = c)]

ToLower ==
    [c \in {CharAt(UpperAlpha, i) : i \in 1..26} |->
        CharAt(LowerAlpha, CHOOSE i \in 1..26 : CharAt(UpperAlpha, i) = c)]

\* str.upper() on one character
upper_char(c) == IF c \in DOMAIN ToUpper THEN ToUpper[c] ELSE c

\* the regex engine's case folding under re.IGNORECASE (lower-casing)
lower_char(c) == IF c \in DOMAIN ToLower THEN ToLower[c] ELSE c

RECURSIVE upper_from(_, _)
upper_from(s, i) ==
    IF i > Len(s) THEN "" ELSE upper_char(CharAt(s, i)) \o upper_from(s, i + 1)

\* str.upper()
str_upper(s) == upper_from(s, 1)

\* s[i-1:i-1+len(p)] == p, for a 1-based position i
starts_at(s, i, p) ==
    /\ i >= 1
    /\ i + Len(p) - 1 <= Len(s)
    /\ SubSeq(s, i, i + Len(p) - 1) = p

\* `p in s`
str_contains(s, p) == \E i \in 1..(Len(s) + 1) : starts_at(s, i, p)

\* s.endswith(suffix)
str_endswith(s, suffix) ==
    /\ Len(suffix) <= Len(s)
    /\ SubSeq(s, Len(s) - Len(suffix) + 1, Len(s)) = suffix

RECURSIVE lstrip(_)
lstrip(s) ==
    IF s # "" /\ CharAt(s, 1) \in Whitespace THEN lstrip(Tail(s)) ELSE s

RECURSIVE rstrip(_)
rstrip(s) ==
    IF s # "" /\ CharAt(s, Len(s)) \in Whitespace
    THEN rstrip(SubSeq(s, 1, Len(s) - 1))
    ELSE s

\* str.strip()
str_strip(s) == rstrip(lstrip(s))

\* str.replace(old, "") scanning from position i: every non-overlapping
\* occurrence of old, left to right, is dropped
RECURSIVE replace_from(_, _, _)
replace_from(s, old, i) ==
    IF i > Len(s) THEN ""
    ELSE IF starts_at(s, i, old)
         THEN replace_from(s, old, i + Len(old))
         ELSE CharAt(s, i) \o replace_from(s, old, i + 1)

str_remove_first(s, old) ==
    IF str_contains(s, old)
    THEN LET i == CHOOSE k \in 1..Len(s) :
                     /\ starts_at(s, k, old)
                     /\ ~str_contains(SubSeq(s, 1, k + Len(old) - 2), old)
         IN  SubSeq(s, 1, i - 1) \o SubSeq(s, i + Len(old), Len(s))
    ELSE s

str_remove(s, old) == replace_from(s, old, 1)

-----------------------------------------------------------------------------
(* re.search(r"FINAL_STATUS:\s*(PASSED|FAILED)", text, re.IGNORECASE)      *)

MarkerLiteral == "FINAL_STATUS:"

StatusWords == <<"PASSED", "FAILED">>

\* the pattern text p matches at position i, ignoring case
matches_ic(s, i, p) ==
    /\ i >= 1
    /\ i + Len(p) - 1 <= Len(s)
    /\ \A j \in 1..Len(p) :
          lower_char(CharAt(s, i + j - 1)) = lower_char(CharAt(p, j))

\* number of whitespace characters from position i on
RECURSIVE space_run(_, _)
space_run(s, i) ==
    IF i <= Len(s) /\ CharAt(s, i) \in Whitespace
    THEN 1 + space_run(s, i + 1)
    ELSE 0

\* lengths k the greedy \s* may settle on so that a status word follows
space_choices(s, i) ==
    { k \in 0..space_run(s, i + Len(MarkerLiteral)) :
        \E w \in 1..Len(StatusWords) :
            matches_ic(s, i + Len(MarkerLiteral) + k, StatusWords[w]) }

match_at(s, i) ==
    /\ matches_ic(s, i, MarkerLiteral)
    /\ space_choices(s, i) # {}

\* the scan of re.search: the first position from i on with a match, or 0
RECURSIVE search_from(_, _)
search_from(s, i) ==
    IF i > Len(s) THEN 0
    ELSE IF match_at(s, i) THEN i
    ELSE search_from(s, i + 1)

\* the match object: found, group(0), group(1)
re_search(s) ==
    IF search_from(s, 1) # 0
    THEN LET i == search_from(s, 1)
             k == CHOOSE a \in space_choices(s, i) :
                      \A b \in space_choices(s, i) : b <= a
             g == i + Len(MarkerLiteral) + k
         IN  [found |-> TRUE,
              group0 |-> SubSeq(s, i, g + 5),
              group1 |-> SubSeq(s, g, g + 5)]
    ELSE [found |-> FALSE, group0 |-> "", group1 |-> ""]

-----------------------------------------------------------------------------
(* parse_markdown_response                                                 *)

ReviewOutcome(is_ok, report) == [is_ok |-> is_ok, report |-> report]

\* keyword test on the text as given instead of its upper-cased copy
parse_markdown_response_exact_case(content) ==
    LET match == re_search(content) IN
    IF match.found
    THEN LET status_str == str_upper(match.group1)
         IN  ReviewOutcome(status_str = "PASSED",
                           str_strip(str_remove(content, match.group0)))
    ELSE IF \/ str_contains(content, "CRITICAL BUG")
            \/ str_contains(content, "SECURITY VULNERABILITY")
         THEN ReviewOutcome(FALSE, content)
         ELSE ReviewOutcome(TRUE, content)

parse_markdown_response(content) ==
    LET match == re_search(content) IN
    IF match.found
    THEN LET status_str == str_upper(match.group1)
         IN  ReviewOutcome(status_str = "PASSED",
                           str_strip(str_remove(content, match.group0)))
    ELSE IF \/ str_contains(str_upper(content), "CRITICAL BUG")
            \/ str_contains(str_upper(content), "SECURITY VULNERABILITY")
         THEN ReviewOutcome(FALSE, content)
         ELSE ReviewOutcome(TRUE, content)

-----------------------------------------------------------------------------
(* The remote change-set client: URLs and error translation.               *)

UnreservedChars ==
    "ABCDEFGHIJKLMNOPQRSTUVWXYZabcdefghijklmnopqrstuvwxyz0123456789_.-~"

Unreserved == { CharAt(UnreservedChars, i) : i \in 1..Len(UnreservedChars) }

\* %XX escape of the reserved characters that occur in the modelled inputs
percent_code(c) ==
    CASE c = "/" -> "%2F"
      [] c = " " -> "%20"
      [] c = ":" -> "%3A"
      [] c = "@" -> "%40"
      [] c = "?" -> "%3F"

\* urllib.parse.quote(s, safe='')
RECURSIVE quote_from(_, _)
quote_from(s, i) ==
    IF i > Len(s) THEN ""
    ELSE (IF CharAt(s, i) \in Unreserved
          THEN CharAt(s, i)
          ELSE percent_code(CharAt(s, i))) \o quote_from(s, i + 1)

urllib_quote(s) == quote_from(s, 1)

\* gitlab_url.rstrip('/')
RECURSIVE rstrip_slash(_)
rstrip_slash(s) ==
    IF s # "" /\ CharAt(s, Len(s)) = "/"
    THEN rstrip_slash(SubSeq(s, 1, Len(s) - 1))
    ELSE s

\* the URL fetch_mr_changes requests
mr_changes_url(gitlab_url, project_id, mr_iid) ==
    rstrip_slash(gitlab_url) \o "/api/v4/projects/" \o urllib_quote(project_id)
        \o "/merge_requests/" \o mr_iid \o "/changes"

\* what fetch_mr_changes does with the response: raise, or return its JSON
fetch_mr_changes_lenient(response) ==
    [raised |-> FALSE, value |-> response.json]

fetch_mr_changes(response) ==
    IF response.status_code # 200
    THEN [raised |-> TRUE, value |-> response.json]
    ELSE [raised |-> FALSE, value |-> response.json]

\* the URL fetch_raw_file requests
raw_file_url_fixed_ref(gitlab_url, project_id, file_path, ref) ==
    rstrip_slash(gitlab_url) \o "/api/v4/projects/" \o urllib_quote(project_id)
        \o "/repository/files/" \o urllib_quote(file_path) \o "/raw?ref=main"

raw_file_url(gitlab_url, project_id, file_path, ref) ==
    rstrip_slash(gitlab_url) \o "/api/v4/projects/" \o urllib_quote(project_id)
        \o "/repository/files/" \o urllib_quote(file_path) \o "/raw?ref=" \o ref

\* what fetch_raw_file returns for the response
fetch_raw_file_body(response) == response.text

fetch_raw_file(response) ==
    IF response.status_code # 200
    THEN "[Error fetching file content: " \o ToString(response.status_code) \o "]"
    ELSE response.text

-----------------------------------------------------------------------------
(* load_merge_request_data                                                 *)

\* truthiness of the Optional[List[str]] file_filter
filter_given(ff) == ~ff.is_none /\ Len(ff.exts) > 0

\* `file_filter and not any(file_path.endswith(ext) for ext in file_filter)`
filter_excludes_strict(file_path, ff) ==
    ~\E k \in 1..Len(ff.exts) : str_endswith(file_path, ff.exts[k])

filter_excludes(file_path, ff) ==
    /\ filter_given(ff)
    /\ ~\E k \in 1..Len(ff.exts) : str_endswith(file_path, ff.exts[k])

\* the two `continue` tests of the loop body, in the code's order
loop_step(change, ff) ==
    IF filter_excludes(change.new_path, ff) THEN "continue"
    ELSE IF change.deleted_file THEN "continue"
    ELSE "load"

combined_content(file_path, diff_content, full_content) ==
    "FILENAME: " \o file_path \o "\n"
    \o "--- BEGIN DIFF (CHANGES) ---\n" \o diff_content \o "\n--- END DIFF ---\n\n"
    \o "--- BEGIN FULL FILE CONTENT (CONTEXT) ---\n" \o full_content
    \o "\n--- END FULL FILE CONTENT ---\n"

Document(page_content, source) ==
    [page_content |-> page_content, metadata |-> [source |-> source]]

\* format_documents_for_context: "\n".join(d.page_content for d in docs)
RECURSIVE format_documents_for_context(_)
format_documents_for_context(ds) ==
    IF ds = <<>> THEN ""
    ELSE IF Len(ds) = 1 THEN ds[1].page_content
    ELSE ds[1].page_content \o "\n" \o format_documents_for_context(Tail(ds))

-----------------------------------------------------------------------------
(* run_mr_review                                                           *)

target_extensions ==
    <<".py", ".js", ".ts", ".jsx", ".tsx", ".go", ".java", ".cpp">>

\* `if not documents: ... return`
no_documents_never(documents) == FALSE

no_documents(documents) == documents = <<>>

\* the chain prompt | llm | parse_markdown_response on one model result
chain_invoke_marker_only(llm_result) ==
    IF llm_result.raised \/ ~re_search(llm_result.content).found
    THEN [raised |-> TRUE, result |-> <<>>]
    ELSE [raised |-> FALSE,
          result |-> <<parse_markdown_response(llm_result.content)>>]

chain_invoke(llm_result) ==
    IF llm_result.raised
    THEN [raised |-> TRUE, result |-> <<>>]
    ELSE [raised |-> FALSE,
          result |-> <<parse_markdown_response(llm_result.content)>>]

\* the try/except around chain.invoke: where control goes next
after_chain_uncaught(r) == IF r.raised THEN "raised" ELSE "write"

after_chain(r) == IF r.raised THEN "done" ELSE "write"

-----------------------------------------------------------------------------
(* The environment: what GitLab and the model may answer.                  *)

\* the command-line arguments of the run
gitlab_url == "https://gitlab.example.com/"

project_id == "group/proj"

mr_id == "7"

NoFilter == [is_none |-> TRUE, exts |-> <<>>]

ListFilter(exts) == [is_none |-> FALSE, exts |-> exts]

Filters ==
    { NoFilter, ListFilter(<<>>), ListFilter(<<".pyc", ".go">>) }

\* entries of the `changes` array of the merge-request JSON
FileChanges ==
    { [new_path |-> "app.py", deleted_file |-> FALSE,
       diff |-> "@@ -1 +1 @@\n-x = 1\n+x = 2"],
      [new_path |-> "lib/util.go", deleted_file |-> FALSE, diff |-> ""],
      [new_path |-> "old.py", deleted_file |-> TRUE, diff |-> "@@ -1 +0,0 @@\n-x"],
      [new_path |-> "build.pyc", deleted_file |-> FALSE, diff |-> "+b"],
      [new_path |-> "README.md", deleted_file |-> TRUE, diff |-> ""] }

RECURSIVE SeqsUpTo(_, _)
SeqsUpTo(S, n) ==
    IF n = 0 THEN { <<>> }
    ELSE LET shorter == SeqsUpTo(S, n - 1)
         IN  shorter \cup { Append(q, e) : q \in shorter, e \in S }

ChangeLists == SeqsUpTo(FileChanges, MaxChanges)

SourceBranches == { "feature/x", "main" }

MrJson == [source_branch : SourceBranches, changes : ChangeLists]

ErrorJson == [source_branch |-> "", changes |-> <<>>]

\* responses to the merge-request metadata request
MrResponses ==
    { [status_code |-> 200, text |-> "", json |-> j] : j \in MrJson }
    \cup { [status_code |-> c, text |-> "{\"message\":\"denied\"}",
            json |-> ErrorJson] : c \in {401, 404} }

\* responses to a raw-file request
RawResponses ==
    { [status_code |-> 200, text |-> "x = 2\n"],
      [status_code |-> 404, text |-> "{\"message\":\"404 File Not Found\"}"],
      [status_code |-> 500, text |-> ""] }

\* pieces model replies are made of
Chunks ==
    { "FINAL_STATUS: PASSED", "final_status:\nFailed", "FINAL_STATUS:",
      "FINAL_", "STATUS: PASSED", "Passed", " ", "Looks fine.\n",
      "Critical Bug", "SECURITY VULNERABILITY" }

RECURSIVE TextsUpTo(_)
TextsUpTo(n) ==
    IF n = 0 THEN { "" }
    ELSE LET shorter == TextsUpTo(n - 1)
         IN  shorter \cup { t \o c : t \in shorter, c \in Chunks }

Texts == TextsUpTo(MaxChunks)

\* replies the model gives in a run
Replies ==
    { "Looks fine.\nFINAL_STATUS: PASSED", "Found issue.\nFINAL_STATUS: failed",
      "A SECURITY VULNERABILITY in app.py", "No problems found." }

\* what the llm step of the chain yields: an exception or an AI message
LlmResults ==
    { [raised |-> TRUE, content |-> ""] }
    \cup { [raised |-> FALSE, content |-> t] : t \in Replies }

-----------------------------------------------------------------------------
(* Actions.                                                                *)

changes == IF mr_data = <<>> THEN <<>> ELSE mr_data[1].changes

source_branch == IF mr_data = <<>> THEN "" ELSE mr_data[1].source_branch

\* run_mr_review up to the call of load_merge_request_data
RunMrReview ==
    /\ pc = "main"
    /\ file_filter' = ListFilter(target_extensions)
    /\ pc' = "load"
    /\ UNCHANGED <<entry, mr_data, idx, docs, requests, llm_calls, outcomes,
                   report_file, text>>

\* load_merge_request_data, lines 79-85: fetch_mr_changes and its result
FetchMrChanges ==
    /\ pc = "load"
    /\ \E response \in MrResponses :
         LET r == fetch_mr_changes(response) IN
         /\ requests' = Append(requests,
                [url |-> mr_changes_url(gitlab_url, project_id, mr_id),
                 response |-> response])
         /\ IF r.raised
            THEN /\ pc' = "raised"
                 /\ UNCHANGED <<mr_data, idx, docs>>
            ELSE /\ mr_data' = <<r.value>>
                 /\ idx' = 1
                 /\ docs' = <<>>
                 /\ pc' = "loop"
    /\ UNCHANGED <<entry, file_filter, llm_calls, outcomes, report_file, text>>

\* one iteration of `for change in changes`
LoopIteration ==
    /\ pc = "loop"
    /\ idx <= Len(changes)
    /\ LET change == changes[idx]
           file_path == change.new_path
       IN  IF loop_step(change, file_filter) = "continue"
           THEN UNCHANGED <<requests, docs>>
           ELSE \E response \in RawResponses :
                  /\ requests' = Append(requests,
                        [url |-> raw_file_url(gitlab_url, project_id, file_path,
                                              source_branch),
                         response |-> response])
                  /\ docs' = Append(docs,
                        Document(combined_content(file_path, change.diff,
                                                  fetch_raw_file(response)),
                                 file_path))
    /\ idx' = idx + 1
    /\ UNCHANGED <<pc, entry, file_filter, mr_data, llm_calls, outcomes,
                   report_file, text>>

\* `return docs`
LoadReturn ==
    /\ pc = "loop"
    /\ idx > Len(changes)
    /\ pc' = IF entry = "run_mr_review" THEN "loaded" ELSE "returned"
    /\ UNCHANGED <<entry, file_filter, mr_data, idx, docs, requests, llm_calls,
                   outcomes, report_file, text>>

\* run_mr_review, lines 197-204
CheckDocuments ==
    /\ pc = "loaded"
    /\ pc' = IF no_documents(docs) THEN "done" ELSE "invoke"
    /\ UNCHANGED <<entry, file_filter, mr_data, idx, docs, requests, llm_calls,
                   outcomes, report_file, text>>

\* chain.invoke inside the try block
ChainInvoke ==
    /\ pc = "invoke"
    /\ \E llm_result \in LlmResults :
         LET r == chain_invoke(llm_result) IN
         /\ llm_calls' = Append(llm_calls, llm_result)
         /\ outcomes' = outcomes \o r.result
         /\ pc' = after_chain(r)
    /\ UNCHANGED <<entry, file_filter, mr_data, idx, docs, requests,
                   report_file, text>>

\* the prints and the write of mr_review_report.md
WriteReport ==
    /\ pc = "write"
    /\ report_file' = <<outcomes[Len(outcomes)].report>>
    /\ pc' = "done"
    /\ UNCHANGED <<entry, file_filter, mr_data, idx, docs, requests, llm_calls,
                   outcomes, text>>

\* a direct call of parse_markdown_response on `text`
ParseMarkdownResponse ==
    /\ pc = "parse"
    /\ outcomes' = Append(outcomes, parse_markdown_response(text))
    /\ pc' = "parsed"
    /\ UNCHANGED <<entry, file_filter, mr_data, idx, docs, requests, llm_calls,
                   report_file, text>>

-----------------------------------------------------------------------------
(* Specifications.                                                         *)

Idle ==
    /\ mr_data = <<>>
    /\ idx = 1
    /\ docs = <<>>
    /\ requests = <<>>
    /\ llm_calls = <<>>
    /\ outcomes = <<>>
    /\ report_file = <<>>

\* a run of the script, or a call of load_merge_request_data with any filter
Init ==
    /\ Idle
    /\ text = ""
    /\ \/ entry = "run_mr_review" /\ pc = "main" /\ file_filter = NoFilter
       \/ entry = "load_merge_request_data" /\ pc = "load"
          /\ file_filter \in Filters

Next ==
    \/ RunMrReview
    \/ FetchMrChanges
    \/ LoopIteration
    \/ LoadReturn
    \/ CheckDocuments
    \/ ChainInvoke
    \/ WriteReport

Spec == Init /\ [][Next]_vars

\* the verdict extractor applied to every text of the bounded set
InitParse ==
    /\ Idle
    /\ entry = "parse_markdown_response"
    /\ pc = "parse"
    /\ file_filter = NoFilter
    /\ text \in Texts

NextParse == ParseMarkdownResponse

SpecParse == InitParse /\ [][NextParse]_vars

-----------------------------------------------------------------------------
(* Vocabulary of the properties, stated without the operators above.       *)

SameLetter(a, b) ==
    \/ a = b
    \/ a \in DOMAIN ToUpper /\ ToUpper[a] = b
    \/ b \in DOMAIN ToUpper /\ ToUpper[b] = a

\* s[i..j] reads as p when case is ignored
ReadsAs(s, i, j, p) ==
    /\ j - i + 1 = Len(p)
    /\ i >= 1
    /\ j <= Len(s)
    /\ \A n \in 1..Len(p) : SameLetter(CharAt(s, i + n - 1), CharAt(p, n))

\* s[i..j] is a status marker: FINAL_STATUS:, white space, PASSED or FAILED
MarkerSpan(s, i, j) ==
    /\ ReadsAs(s, i, i + 12, "FINAL_STATUS:")
    /\ j >= i + 18
    /\ \A n \in (i + 13)..(j - 6) : CharAt(s, n) \in Whitespace
    /\ ReadsAs(s, j - 5, j, "PASSED") \/ ReadsAs(s, j - 5, j, "FAILED")

\* a status marker begins at position i
MarkerAt(s, i) ==
    /\ ReadsAs(s, i, i + 12, "FINAL_STATUS:")
    /\ \E j \in (i + 18)..Len(s) : MarkerSpan(s, i, j)

HasMarker(s) == \E i \in 1..Len(s) : MarkerAt(s, i)

\* start and end of the leftmost status marker of a text that has one
FirstMarkerStart(s) ==
    CHOOSE i \in 1..Len(s) :
        MarkerAt(s, i) /\ \A a \in 1..(i - 1) : ~MarkerAt(s, a)

FirstMarkerEnd(s) ==
    LET i == FirstMarkerStart(s)
    IN  CHOOSE j \in (i + 18)..Len(s) : MarkerSpan(s, i, j)

ContainsIgnoringCase(s, p) ==
    \E i \in 1..Len(s) : ReadsAs(s, i, i + Len(p) - 1, p)

\* s without its leading and trailing white space
Trimmed(s) ==
    LET solid == { i \in 1..Len(s) : CharAt(s, i) \notin Whitespace } IN
    IF solid = {} THEN ""
    ELSE SubSeq(s, CHOOSE a \in solid : \A b \in solid : a <= b,
                   CHOOSE a \in solid : \A b \in solid : b <= a)

OccursAt(s, i, m) ==
    i + Len(m) - 1 <= Len(s) /\ SubSeq(s, i, i + Len(m) - 1) = m

\* the positions of s covered by the occurrences of m taken left to right
\* without overlap
Covered(s, m) ==
    LET taken[i \in 1..Len(s)] ==
            /\ OccursAt(s, i, m)
            /\ \A a \in 1..(i - 1) :
                  a + Len(m) > i /\ OccursAt(s, a, m) => ~taken[a]
    IN  { i \in 1..Len(s) :
            \E a \in 1..i : a + Len(m) > i /\ OccursAt(s, a, m) /\ taken[a] }

RECURSIVE Uncovered(_, _, _)
Uncovered(s, gone, i) ==
    IF i > Len(s) THEN ""
    ELSE (IF i \in gone THEN "" ELSE CharAt(s, i)) \o Uncovered(s, gone, i + 1)

\* s with every such occurrence of m cut out
WithoutAll(s, m) == Uncovered(s, Covered(s, m), 1)

\* the verdict and report the extractor owes for a reply
Extraction(reply) ==
    IF HasMarker(reply)
    THEN LET i == FirstMarkerStart(reply)
             j == FirstMarkerEnd(reply)
         IN  [is_ok  |-> ReadsAs(reply, j - 5, j, "PASSED"),
              report |-> Trimmed(WithoutAll(reply, SubSeq(reply, i, j)))]
    ELSE [is_ok  |-> ~(\/ ContainsIgnoringCase(reply, "CRITICAL BUG")
                       \/ ContainsIgnoringCase(reply, "SECURITY VULNERABILITY")),
          report |-> reply]

Parsed == pc = "parsed" /\ Len(outcomes) = 1

-----------------------------------------------------------------------------
(* Properties of parse_markdown_response, checked under SpecParse.         *)

\* C1: the report of the returned ReviewOutcome contains no status marker,
\* whatever the reply text.
C1_ReportHasNoMarker == Parsed => ~HasMarker(outcomes[1].report)

\* C5 as stated: with a marker in the reply, is_ok tells whether the
\* matched status word is PASSED ignoring case, and the report is the reply
\* with the matched marker cut out and the result trimmed.
C5_MatchedMarkerCutOut ==
    Parsed /\ HasMarker(text) =>
        LET i == FirstMarkerStart(text)
            j == FirstMarkerEnd(text)
        IN  /\ outcomes[1].is_ok = ReadsAs(text, j - 5, j, "PASSED")
            /\ outcomes[1].report =
                 Trimmed(SubSeq(text, 1, i - 1) \o SubSeq(text, j + 1, Len(text)))

\* C5 amended: with a marker in the reply, is_ok tells whether the matched
\* status word is PASSED ignoring case, and the report is the reply with
\* every occurrence of the matched marker's exact text cut out (left to
\* right, without overlap) and the result trimmed.
C5_EveryCopyCutOut ==
    Parsed /\ HasMarker(text) =>
        LET i == FirstMarkerStart(text)
            j == FirstMarkerEnd(text)
        IN  /\ outcomes[1].is_ok = ReadsAs(text, j - 5, j, "PASSED")
            /\ outcomes[1].report = Trimmed(WithoutAll(text, SubSeq(text, i, j)))

\* a reply with the same marker twice: both copies are gone from the report
C5_Witness ==
    /\ Parsed
    /\ text = "FINAL_STATUS: PASSEDLooks fine.\nFINAL_STATUS: PASSED"
    /\ outcomes[1] = [is_ok |-> TRUE, report |-> "Looks fine."]

\* C6: without a marker in the reply, is_ok is false exactly when the reply
\* contains CRITICAL BUG or SECURITY VULNERABILITY ignoring case, and the
\* report is the reply itself, untrimmed.
C6_FailOpen ==
    Parsed /\ ~HasMarker(text) =>
        /\ outcomes[1].is_ok =
             ~(\/ ContainsIgnoringCase(text, "CRITICAL BUG")
               \/ ContainsIgnoringCase(text, "SECURITY VULNERABILITY"))
        /\ outcomes[1].report = text

\* a mixed-case keyword after an incomplete marker, with trailing space kept
C6_Witness ==
    /\ Parsed
    /\ text = "FINAL_STATUS:Critical Bug "
    /\ outcomes[1] = [is_ok |-> FALSE, report |-> "FINAL_STATUS:Critical Bug "]

-----------------------------------------------------------------------------
(* Vocabulary of the properties of a run.                                  *)

HasSuffix(path, ext) ==
    \E k \in 0..Len(path) : SubSeq(path, k + 1, Len(path)) = ext

\* an absent or empty filter matches every path
FilterMatches(path, ff) ==
    \/ ff.is_none
    \/ ff.exts = <<>>
    \/ \E k \in 1..Len(ff.exts) : HasSuffix(path, ff.exts[k])

IsRetained(change) ==
    ~change.deleted_file /\ FilterMatches(change.new_path, file_filter)

\* the retained entries among the first n of the change list, in order
RetainedAmong(n) == SelectSeq(SubSeq(changes, 1, n), IsRetained)

RetainedChanges == RetainedAmong(Len(changes))

\* the metadata request was answered with a non-success status
MetadataFailed ==
    requests # <<>> /\ requests[1].response.status_code # 200

\* load_merge_request_data has returned its list
LoadReturned == pc \in {"loaded", "returned", "invoke", "write", "done"}

ExpectedSentinel ==
    [c \in {404, 500} |->
        IF c = 404 THEN "[Error fetching file content: 404]"
                   ELSE "[Error fetching file content: 500]"]

\* the text the full-content section holds for a raw-file response
ExpectedFullContent(response) ==
    IF response.status_code = 200 THEN response.text
    ELSE ExpectedSentinel[response.status_code]

ExpectedBody(change, response) ==
    "FILENAME: " \o change.new_path
    \o "\n--- BEGIN DIFF (CHANGES) ---\n" \o change.diff
    \o "\n--- END DIFF ---\n\n--- BEGIN FULL FILE CONTENT (CONTEXT) ---\n"
    \o ExpectedFullContent(response)
    \o "\n--- END FULL FILE CONTENT ---\n"

EncodedPath ==
    [p \in {c.new_path : c \in FileChanges} |->
        CASE p = "lib/util.go" -> "lib%2Futil.go"
          [] OTHER -> p]

ExpectedMetadataUrl ==
    "https://gitlab.example.com/api/v4/projects/group%2Fproj/merge_requests/7/changes"

ExpectedRawUrl(path, ref) ==
    "https://gitlab.example.com/api/v4/projects/group%2Fproj/repository/files/"
    \o EncodedPath[path] \o "/raw?ref=" \o ref

-----------------------------------------------------------------------------
(* Properties of a run, checked under Spec.                                *)

\* C2: once the metadata request got a non-success status the run has
\* aborted: that request is the only one, and there is no unit, no model
\* invocation, no outcome and no report, in this state and ever after.
C2_MetadataFailureAborts ==
    MetadataFailed =>
        /\ pc = "raised"
        /\ Len(requests) = 1
        /\ mr_data = <<>>
        /\ docs = <<>>
        /\ llm_calls = <<>>
        /\ outcomes = <<>>
        /\ report_file = <<>>

\* a run of the script stopped by HTTP 401 on the metadata request
C2_Witness ==
    /\ entry = "run_mr_review"
    /\ pc = "raised"
    /\ Len(requests) = 1
    /\ requests[1].response.status_code = 401

C4_PathsAreRetainedSubsequence ==
    LoadReturned =>
        /\ Len(docs) = Len(RetainedChanges)
        /\ \A k \in 1..Len(docs) :
              docs[k].metadata.source = RetainedChanges[k].new_path

\* an empty filter list: the deleted file is dropped, the file with an empty
\* diff and the file of another type are emitted, in order
C4_Witness ==
    /\ pc = "returned"
    /\ file_filter = ListFilter(<<>>)
    /\ Len(changes) = 3
    /\ changes[2].deleted_file
    /\ Len(docs) = 2
    /\ docs[1].metadata.source = "lib/util.go"
    /\ docs[2].metadata.source = "build.pyc"

\* C7: when load_merge_request_data returned no unit to run_mr_review, the
\* run ends with no model invocation, no outcome and no report.
C7_NoUnitsNoModel ==
    entry = "run_mr_review" /\ LoadReturned /\ docs = <<>> =>
        /\ pc \in {"loaded", "done"}
        /\ llm_calls = <<>>
        /\ outcomes = <<>>
        /\ report_file = <<>>

\* a run over two changes, none retained, that has ended
C7_Witness ==
    /\ entry = "run_mr_review"
    /\ pc = "done"
    /\ Len(changes) = 2
    /\ docs = <<>>
    /\ llm_calls = <<>>

\* C8: when the model invocation raised, the run ended normally with no
\* outcome and no report; a report is written only after one model
\* invocation that returned and one extraction, and it is that extraction's
\* report; only the metadata request lets an exception leave the run.
C8_ModelFailureCaught ==
    /\ llm_calls # <<>> /\ llm_calls[1].raised =>
          pc = "done" /\ outcomes = <<>> /\ report_file = <<>>
    /\ report_file # <<>> =>
          /\ Len(llm_calls) = 1
          /\ ~llm_calls[1].raised
          /\ Len(outcomes) = 1
          /\ report_file[1] = outcomes[1].report
    /\ pc = "raised" => llm_calls = <<>> /\ MetadataFailed

\* a run with one unit whose model invocation raised
C8_Witness ==
    /\ entry = "run_mr_review"
    /\ pc = "done"
    /\ Len(docs) = 1
    /\ Len(llm_calls) = 1
    /\ llm_calls[1].raised
    /\ report_file = <<>>

RunEnded == entry = "run_mr_review" /\ pc \in {"done", "raised"}

\* C9 as stated: every run creates exactly one ReviewOutcome.
C9_ExactlyOncePerRun == RunEnded => Len(outcomes) = 1

\* C9 amended: a run creates at most one ReviewOutcome and invokes the model
\* at most once; it creates exactly one, the extraction of that reply, when
\* the model invocation returned a reply, and none otherwise.
C9_AtMostOncePerRun ==
    /\ Len(llm_calls) <= 1
    /\ Len(outcomes) <= 1
    /\ Len(outcomes) = Len(SelectSeq(llm_calls, LAMBDA c : ~c.raised))
    /\ outcomes # <<>> => outcomes[1] = Extraction(llm_calls[1].content)

\* a run that ended with its one outcome, made from a reply without marker
C9_Witness ==
    /\ RunEnded
    /\ Len(llm_calls) = 1
    /\ llm_calls[1].content = "No problems found."
    /\ outcomes = <<[is_ok |-> TRUE, report |-> "No problems found."]>>
    /\ report_file = <<"No problems found.">>

\* C10: the requests of a run are one metadata request followed by one
\* raw-file request per retained change met so far, in change-list order,
\* each for that change's path at the source branch the metadata named,
\* whatever the statuses of the responses; the model is invoked only after
\* the whole change list was walked.
C10_RequestSequence ==
    /\ pc \in {"main", "load"} => requests = <<>>
    /\ pc \notin {"main", "load"} =>
          /\ requests # <<>>
          /\ requests[1].url = ExpectedMetadataUrl
          /\ Len(requests) = Len(RetainedAmong(idx - 1)) + 1
          /\ \A k \in 2..Len(requests) :
                requests[k].url =
                    ExpectedRawUrl(RetainedAmong(idx - 1)[k - 1].new_path,
                                   source_branch)
    /\ llm_calls # <<>> \/ pc \in {"invoke", "write", "done"} =>
          Len(requests) = Len(RetainedChanges) + 1

\* a run on branch feature/x: metadata, two raw-file requests (the first
\* answered 404, not repeated), then the model
C10_Witness ==
    /\ entry = "run_mr_review"
    /\ pc = "done"
    /\ source_branch = "feature/x"
    /\ Len(changes) = 3
    /\ Len(requests) = 3
    /\ requests[2].response.status_code = 404
    /\ requests[3].url = ExpectedRawUrl("lib/util.go", "feature/x")
    /\ Len(llm_calls) = 1

====
